---- MODULE Spec2Model ----
(***************************************************************************)
(* A model of the GraphQL HTTP handler (package handler): the request      *)
(* options decoder NewRequestOptions with the library conversions it rests *)
(* on (url.ParseQuery, Request.ParseForm, json.Unmarshal), the constructor *)
(* New and the error-logging branch of Handler.ContextHandler.             *)
(*                                                                         *)
(* Text (a Go string or []byte) is a sequence of one-character strings, so *)
(* that unescaping and parsing are computed.  A Go pointer is a sequence   *)
(* of length at most one: <<>> is nil, <<x>> points to x.                  *)
(***************************************************************************)
EXTENDS Integers, Sequences, FiniteSets, TLC

(***************************************************************************)
(* Generic helpers on text.                                                *)
(***************************************************************************)
Min(S) == CHOOSE i \in S : \A j \in S : i <= j

Max(S) == CHOOSE i \in S : \A j \in S : i >= j

\* strings.Index for a one-character separator: 0 when c does not occur
IndexOf(s, c) ==
    LET at == {i \in 1..Len(s) : s[i] = c}
    IN  IF at = {} THEN 0 ELSE Min(at)

\* text with the dropped positions, marked "", taken out
Kept(c) == c # ""

Compact(marked) == SelectSeq(marked, Kept)

\* s[:i-1] and s[i+1:] for the index i of a separator, all of s and nothing
\* when i is 0
Prefix(s, i) == IF i = 0 THEN s ELSE SubSeq(s, 1, i - 1)

Suffix(s, i) == IF i = 0 THEN <<>> ELSE SubSeq(s, i + 1, Len(s))

\* the text before the first c (all of s when c does not occur)
Before(s, c) == Prefix(s, IndexOf(s, c))

\* the text after the first c (empty when c does not occur)
After(s, c) == Suffix(s, IndexOf(s, c))

(***************************************************************************)
(* net/url: QueryUnescape, ParseQuery, Values.Get.                         *)
(***************************************************************************)
HexDigits ==
    {"0", "1", "2", "3", "4", "5", "6", "7", "8", "9",
     "A", "B", "C", "D", "E", "F", "a", "b", "c", "d", "e", "f"}

\* the byte a %XY escape stands for; "?" is a byte outside the modelled text
UnhexPair(x, y) ==
    CASE x = "7" /\ y \in {"B", "b"} -> "{"
      [] x = "7" /\ y \in {"D", "d"} -> "}"
      [] x = "2" /\ y = "2" -> "\""
      [] x = "3" /\ y \in {"A", "a"} -> ":"
      [] x = "3" /\ y \in {"D", "d"} -> "="
      [] x = "2" /\ y = "6" -> "&"
      [] x = "2" /\ y = "0" -> " "
      [] x = "2" /\ y = "5" -> "%"
      [] OTHER -> "?"

\* first pass of url.unescape: every % is followed by two hex digits (a
\* hex digit is no %, so every % of a valid text starts an escape)
EscapesValid(s) ==
    \A i \in 1..Len(s) :
        s[i] = "%" => /\ i + 2 <= Len(s)
                      /\ s[i + 1] \in HexDigits
                      /\ s[i + 2] \in HexDigits

\* second pass of url.unescape in query-component mode: %XY becomes its
\* byte, + a space
Decoded(s) ==
    Compact([i \in 1..Len(s) |->
                IF (i > 1 /\ s[i - 1] = "%") \/ (i > 2 /\ s[i - 2] = "%") THEN ""
                ELSE IF s[i] = "%" THEN UnhexPair(s[i + 1], s[i + 2])
                ELSE IF s[i] = "+" THEN " "
                ELSE s[i]])

\* url.QueryUnescape: (text, error)
QueryUnescape(s) ==
    IF EscapesValid(s)
    THEN [s |-> Decoded(s), err |-> FALSE]
    ELSE [s |-> <<>>, err |-> TRUE]

\* url.Values is kept as the list of (key, value) pairs in arrival order;
\* Values.Get is the first value stored under the key, "" when there is none
RECURSIVE Get(_, _)
Get(values, key) ==
    IF values = <<>> THEN <<>>
    ELSE IF values[1][1] = key THEN values[1][2]
    ELSE Get(Tail(values), key)

\* a pair whose key and value were unescaped, put before the pairs after it:
\* a pair that failed to unescape is dropped and the error kept
PairUnescaped(key, value, rest) ==
    IF key.err \/ value.err
    THEN [v |-> rest.v, err |-> TRUE]
    ELSE [v |-> <<<<key.s, value.s>>>> \o rest.v, err |-> rest.err]

\* a pair, split at its first =; an empty pair is skipped
WithPair(pair, rest) ==
    IF pair = <<>> THEN rest
    ELSE PairUnescaped(QueryUnescape(Before(pair, "=")),
                    QueryUnescape(After(pair, "=")), rest)

\* url.ParseQuery: pairs separated by &, key and value split at the first =,
\* both unescaped; a pair that fails to unescape is dropped and the first
\* error is kept while the remaining pairs are still parsed
RECURSIVE ParseQuery(_)
ParseQuery(query) ==
    IF query = <<>> THEN [v |-> <<>>, err |-> FALSE]
    ELSE WithPair(Before(query, "&"), ParseQuery(After(query, "&")))

\* URL.Query: ParseQuery with the error discarded
URLQuery(rawQuery) == ParseQuery(rawQuery).v

(***************************************************************************)
(* encoding/json: the syntax of a JSON text.  A JSON value is a record     *)
(* [t, s, m]: t its kind, s the text of a string, number or literal, m the *)
(* members of an object as (key, value) pairs in source order, or the      *)
(* elements of an array as pairs with an empty key.  The modelled text has *)
(* the space as its only white space, the escapes \" \\ \/ \n \t, and      *)
(* integers as its only numbers.                                           *)
(***************************************************************************)
JVal(t, s, m) == [t |-> t, s |-> s, m |-> m]

JNull == JVal("null", <<>>, <<>>)

Digits == {"0", "1", "2", "3", "4", "5", "6", "7", "8", "9"}

\* a scan result: whether it succeeded, the value read, the text left
Fail == [ok |-> FALSE, v |-> JNull, rest |-> <<>>]

Scanned(v, rest) == [ok |-> TRUE, v |-> v, rest |-> rest]

\* s without its leading white space
SkipWS(s) ==
    LET at == {i \in 1..Len(s) : s[i] # " "}
    IN  IF at = {} THEN <<>> ELSE SubSeq(s, Min(at), Len(s))

IsPrefix(p, s) == Len(p) <= Len(s) /\ SubSeq(s, 1, Len(p)) = p

\* the character an escape \c stands for, "" when the escape is invalid
Unescaped(c) ==
    CASE c = "\"" -> "\""
      [] c = "\\" -> "\\"
      [] c = "/" -> "/"
      [] c = "n" -> "\n"
      [] c = "t" -> "\t"
      [] OTHER -> ""

\* whether the character at i follows an odd run of backslashes, that is,
\* whether it is the character of an escape
IsEscaped(s, i) ==
    (i - 1 - Max({0} \cup {j \in 1..(i - 1) : s[j] # "\\"})) % 2 = 1

\* a string literal that closes at the quote s[close]: every escape in it
\* must be valid
ClosedAt(s, close) ==
    IF \E i \in 1..(close - 1) : IsEscaped(s, i) /\ Unescaped(s[i]) = ""
    THEN Fail
    ELSE Scanned(JVal("str",
                      Compact([i \in 1..(close - 1) |->
                                  IF IsEscaped(s, i) THEN Unescaped(s[i])
                                  ELSE IF s[i] = "\\" THEN ""
                                  ELSE s[i]]),
                      <<>>),
                 SubSeq(s, close + 1, Len(s)))

\* a string literal whose unescaped quotes stand at the given places
ClosedAmong(s, quotes) == IF quotes = {} THEN Fail ELSE ClosedAt(s, Min(quotes))

\* the rest of a string literal after its opening quote: it ends at the
\* first quote that is not escaped
ScanString(s) ==
    ClosedAmong(s, {i \in 1..Len(s) : s[i] = "\"" /\ ~IsEscaped(s, i)})

\* the digits s[1..end] after acc
DigitsTo(s, acc, end) ==
    Scanned(JVal("num", acc \o SubSeq(s, 1, end), <<>>), SubSeq(s, end + 1, Len(s)))

\* the places of s that hold no digit
NonDigits(s) == {i \in 1..Len(s) : s[i] \notin Digits}

\* the digits at the head of s, after acc
ScanDigits(s, acc) ==
    DigitsTo(s, acc, IF NonDigits(s) = {} THEN Len(s) ELSE Min(NonDigits(s)) - 1)

\* the digits of a number after its sign
Unsigned(body, sign) ==
    IF body = <<>> \/ body[1] \notin Digits THEN Fail
    ELSE IF body[1] = "0"
         THEN Scanned(JVal("num", sign \o <<"0">>, <<>>), Tail(body))
         ELSE ScanDigits(body, sign)

\* -?(0|[1-9][0-9]*)
ScanNumber(s) ==
    IF s[1] = "-" THEN Unsigned(Tail(s), <<"-">>) ELSE Unsigned(s, <<>>)

ScanLiteral(s) ==
    IF IsPrefix(<<"t", "r", "u", "e">>, s)
    THEN Scanned(JVal("bool", <<"t", "r", "u", "e">>, <<>>), SubSeq(s, 5, Len(s)))
    ELSE IF IsPrefix(<<"f", "a", "l", "s", "e">>, s)
    THEN Scanned(JVal("bool", <<"f", "a", "l", "s", "e">>, <<>>), SubSeq(s, 6, Len(s)))
    ELSE IF IsPrefix(<<"n", "u", "l", "l">>, s)
    THEN Scanned(JNull, SubSeq(s, 5, Len(s)))
    ELSE Fail

RECURSIVE ScanValue(_)
RECURSIVE ScanMembers(_, _)
RECURSIVE ScanElements(_, _)

\* after a member: a comma and another member, or the closing brace
NextMember(s, acc) ==
    IF s = <<>> THEN Fail
    ELSE IF s[1] = "," THEN ScanMembers(SkipWS(Tail(s)), acc)
    ELSE IF s[1] = "}" THEN Scanned(JVal("obj", <<>>, acc), Tail(s))
    ELSE Fail

\* a member's value was scanned
AfterMember(val, key, acc) ==
    IF ~val.ok THEN Fail
    ELSE NextMember(SkipWS(val.rest), Append(acc, <<key, val.v>>))

\* a member's key was scanned: a colon and a value follow
AfterKey(k, acc) ==
    IF ~k.ok \/ SkipWS(k.rest) = <<>> \/ Head(SkipWS(k.rest)) # ":" THEN Fail
    ELSE AfterMember(ScanValue(SkipWS(Tail(SkipWS(k.rest)))), k.v.s, acc)

\* the members of an object: "key" : value, separated by commas
ScanMembers(s, acc) ==
    IF s = <<>> \/ s[1] # "\"" THEN Fail ELSE AfterKey(ScanString(Tail(s)), acc)

\* after an element: a comma and another element, or the closing bracket
NextElement(s, acc) ==
    IF s = <<>> THEN Fail
    ELSE IF s[1] = "," THEN ScanElements(SkipWS(Tail(s)), acc)
    ELSE IF s[1] = "]" THEN Scanned(JVal("arr", <<>>, acc), Tail(s))
    ELSE Fail

\* an element was scanned
AfterElement(val, acc) ==
    IF ~val.ok THEN Fail
    ELSE NextElement(SkipWS(val.rest), Append(acc, <<<<>>, val.v>>))

\* the elements of an array
ScanElements(s, acc) == AfterElement(ScanValue(s), acc)

\* an object or an array after its opening brace or bracket
Opened(open, in) ==
    IF open = "{"
    THEN IF in # <<>> /\ in[1] = "}"
         THEN Scanned(JVal("obj", <<>>, <<>>), Tail(in))
         ELSE ScanMembers(in, <<>>)
    ELSE IF in # <<>> /\ in[1] = "]"
         THEN Scanned(JVal("arr", <<>>, <<>>), Tail(in))
         ELSE ScanElements(in, <<>>)

\* a value at the head of s (white space already skipped)
ScanValue(s) ==
    IF s = <<>> THEN Fail
    ELSE IF s[1] \in {"{", "["} THEN Opened(s[1], SkipWS(Tail(s)))
    ELSE IF s[1] = "\"" THEN ScanString(Tail(s))
    ELSE IF s[1] = "-" \/ s[1] \in Digits THEN ScanNumber(s)
    ELSE ScanLiteral(s)

\* a scanned value is the whole text when only white space follows it
Whole(val) == IF val.ok /\ SkipWS(val.rest) = <<>> THEN val ELSE Fail

\* json.checkValid and the scan of the whole text: one value, white space
\* around it and nothing else; an empty text is a syntax error
ParseJSON(data) == Whole(ScanValue(SkipWS(data)))

(***************************************************************************)
(* encoding/json: storing a JSON value into Go values.  A Go value held in *)
(* an interface{} is a record [t, s, m, a]: t its dynamic type, s the text *)
(* of a string, float64 or bool, m a map as a set of (key, value) pairs    *)
(* with distinct keys, a a slice.  The nil map and the nil interface are   *)
(* NilMap.                                                                 *)
(***************************************************************************)
GoVal(t, s, m, a) == [t |-> t, s |-> s, m |-> m, a |-> a]

NilMap == GoVal("nil", <<>>, {}, <<>>)

\* m[k] = x
MapPut(m, k, x) == {p \in m : p[1] # k} \cup {<<k, x>>}

RECURSIVE ToInterface(_)
RECURSIVE MapFill(_, _)

\* decode.objectInterface: each member in turn, a repeated key overwrites
MapFill(m, members) ==
    IF members = <<>> THEN m
    ELSE MapFill(MapPut(m, members[1][1], ToInterface(members[1][2])),
                 Tail(members))

\* decode.valueInterface: the Go value an interface{} receives
ToInterface(v) ==
    CASE v.t = "str"  -> GoVal("string", v.s, {}, <<>>)
      [] v.t = "num"  -> GoVal("float64", v.s, {}, <<>>)
      [] v.t = "bool" -> GoVal("bool", v.s, {}, <<>>)
      [] v.t = "obj"  -> GoVal("map", <<>>, MapFill({}, v.m), <<>>)
      [] v.t = "arr"  -> GoVal("slice", <<>>, {},
                               [i \in 1..Len(v.m) |-> ToInterface(v.m[i][2])])
      [] OTHER        -> NilMap

\* storing a JSON value into a map[string]interface{}: an object fills the
\* map (allocated when nil, kept when not), null sets it to nil, anything
\* else is an UnmarshalTypeError that leaves it alone
StoreMap(m, v) ==
    CASE v.t = "obj"  -> [m |-> GoVal("map", <<>>,
                                      MapFill(IF m.t = "map" THEN m.m ELSE {}, v.m),
                                      <<>>),
                          err |-> FALSE]
      [] v.t = "null" -> [m |-> NilMap, err |-> FALSE]
      [] OTHER        -> [m |-> m, err |-> TRUE]

\* storing a JSON value into a string: a string is stored, null leaves the
\* field alone, anything else is an UnmarshalTypeError that leaves it alone
StoreString(str, v) ==
    CASE v.t = "str"  -> [s |-> v.s, err |-> FALSE]
      [] v.t = "null" -> [s |-> str, err |-> FALSE]
      [] OTHER        -> [s |-> str, err |-> TRUE]

UpperCase == <<"A", "B", "C", "D", "E", "F", "G", "H", "I", "J", "K", "L", "M",
               "N", "O", "P", "Q", "R", "S", "T", "U", "V", "W", "X", "Y", "Z">>

LowerCase == <<"a", "b", "c", "d", "e", "f", "g", "h", "i", "j", "k", "l", "m",
               "n", "o", "p", "q", "r", "s", "t", "u", "v", "w", "x", "y", "z">>

\* the case folding json uses to match an object key to a struct field
Fold(key) ==
    [i \in 1..Len(key) |->
        IF IndexOf(UpperCase, key[i]) = 0 THEN key[i]
        ELSE LowerCase[IndexOf(UpperCase, key[i])]]

\* the json tags of RequestOptions and requestOptionsCompatibility
QueryTag == <<"q", "u", "e", "r", "y">>

VariablesTag == <<"v", "a", "r", "i", "a", "b", "l", "e", "s">>

OperationNameTag ==
    <<"o", "p", "e", "r", "a", "t", "i", "o", "n", "N", "a", "m", "e">>

\* the struct field an object key names: the exact tag, else the tag equal
\* under case folding, else none (the member is skipped)
FieldFor(key) ==
    CASE Fold(key) = Fold(QueryTag)         -> "Query"
      [] Fold(key) = Fold(VariablesTag)     -> "Variables"
      [] Fold(key) = Fold(OperationNameTag) -> "OperationName"
      [] OTHER                              -> ""

\* type RequestOptions and its zero value
RequestOptions(query, variables, operationName) ==
    [Query |-> query, Variables |-> variables, OperationName |-> operationName]

ZeroOptions == RequestOptions(<<>>, NilMap, <<>>)

\* type requestOptionsCompatibility: Variables is a string
ZeroCompatibility == [Query |-> <<>>, Variables |-> <<>>, OperationName |-> <<>>]

\* a string field stored: the field's new value and the error kept
WithQuery(acc, q) ==
    [o |-> [acc.o EXCEPT !.Query = q.s], err |-> acc.err \/ q.err]

WithOperationName(acc, n) ==
    [o |-> [acc.o EXCEPT !.OperationName = n.s], err |-> acc.err \/ n.err]

\* a Variables field stored, as a map (m.m) or as a string (m.s)
WithVariables(acc, m) ==
    [o |-> [acc.o EXCEPT !.Variables = m.m], err |-> acc.err \/ m.err]

WithVariablesString(acc, m) ==
    [o |-> [acc.o EXCEPT !.Variables = m.s], err |-> acc.err \/ m.err]

\* one member stored into the field f of a RequestOptions; a member of the
\* wrong type records the error and leaves the field alone
StoreField(acc, f, v) ==
    CASE f = "Query"         -> WithQuery(acc, StoreString(acc.o.Query, v))
      [] f = "Variables"     -> WithVariables(acc, StoreMap(acc.o.Variables, v))
      [] f = "OperationName" ->
             WithOperationName(acc, StoreString(acc.o.OperationName, v))
      [] OTHER               -> acc

\* one member stored into the field f of a requestOptionsCompatibility
StoreFieldCompatibility(acc, f, v) ==
    CASE f = "Query"         -> WithQuery(acc, StoreString(acc.o.Query, v))
      [] f = "Variables"     ->
             WithVariablesString(acc, StoreString(acc.o.Variables, v))
      [] f = "OperationName" ->
             WithOperationName(acc, StoreString(acc.o.OperationName, v))
      [] OTHER               -> acc

\* decode.object into a RequestOptions: the members are stored in source
\* order, and decoding goes on after a member of the wrong type
RECURSIVE StoreOptions(_, _)
StoreOptions(acc, members) ==
    IF members = <<>> THEN acc
    ELSE StoreOptions(StoreField(acc, FieldFor(members[1][1]), members[1][2]),
                      Tail(members))

\* decode.object into a requestOptionsCompatibility
RECURSIVE StoreCompatibility(_, _)
StoreCompatibility(acc, members) ==
    IF members = <<>> THEN acc
    ELSE StoreCompatibility(
             StoreFieldCompatibility(acc, FieldFor(members[1][1]), members[1][2]),
             Tail(members))

\* a parsed text stored into a RequestOptions: a syntax error stores
\* nothing; null stores nothing; a value that is no object is a type error
StoredOptions(val, opts) ==
    IF ~val.ok THEN [o |-> opts, err |-> TRUE]
    ELSE IF val.v.t = "obj" THEN StoreOptions([o |-> opts, err |-> FALSE], val.v.m)
    ELSE [o |-> opts, err |-> val.v.t # "null"]

StoredCompatibility(val, opts) ==
    IF ~val.ok THEN [o |-> opts, err |-> TRUE]
    ELSE IF val.v.t = "obj"
         THEN StoreCompatibility([o |-> opts, err |-> FALSE], val.v.m)
    ELSE [o |-> opts, err |-> val.v.t # "null"]

StoredMap(val, m) ==
    IF ~val.ok THEN [m |-> m, err |-> TRUE] ELSE StoreMap(m, val.v)

\* json.Unmarshal(data, &opts), opts a RequestOptions
UnmarshalOptions(data, opts) == StoredOptions(ParseJSON(data), opts)

\* json.Unmarshal(data, &optsCompatible)
UnmarshalCompatibility(data, opts) == StoredCompatibility(ParseJSON(data), opts)

\* json.Unmarshal(data, &m), m a map[string]interface{}
UnmarshalMap(data, m) == StoredMap(ParseJSON(data), m)

\* json.Unmarshal(data, m) with the map passed by value: the target is no
\* pointer, so an InvalidUnmarshalError (or the syntax error) is returned
\* and nothing is stored
UnmarshalMapByValue(data, m) == [m |-> m, err |-> TRUE]

(***************************************************************************)
(* net/http: the request as the decoder sees it.  A request is a record    *)
(* [Method, RawQuery, ContentType, Body]: RawQuery the text after the ? of *)
(* the URL, ContentType the value of the Content-Type header (empty when   *)
(* the header is absent), Body a pointer to a reader [data, fails], whose  *)
(* data is what ReadAll returns and fails whether ReadAll returns an error *)
(* with it.                                                                *)
(***************************************************************************)
Request(method, rawQuery, contentType, body) ==
    [Method |-> method, RawQuery |-> rawQuery, ContentType |-> contentType,
     Body |-> body]

\* ioutil.ReadAll(r.Body): the bytes read and whether the read failed
ReadAll(body) == [data |-> body[1].data, err |-> body[1].fails]

\* mime.ParseMediaType, the parameters after the media type: each is
\* attribute=value with neither side empty; a trailing semicolon is ignored
MediaParamValid(p) == IndexOf(p, "=") > 1 /\ After(p, "=") # <<>>

RECURSIVE MediaParamsValid(_)
MediaParamsValid(params) ==
    IF SkipWS(params) = <<>> THEN TRUE
    ELSE /\ MediaParamValid(SkipWS(Before(params, ";")))
         /\ \/ IndexOf(params, ";") = 0
            \/ MediaParamsValid(After(params, ";"))

\* the result of ParseForm from the read of the body, the body's pairs, the
\* URL's pairs and the validity of the media type's parameters
FormOf(read, form, url, paramsValid) ==
    [PostForm |-> IF read.err THEN <<>> ELSE form.v,
     Form |-> (IF read.err THEN <<>> ELSE form.v) \o url.v,
     err |-> ~paramsValid \/ read.err \/ form.err \/ url.err]

\* Request.ParseForm on a POST request with a body whose media type is
\* application/x-www-form-urlencoded (the only call the handler makes): the
\* body is read and parsed into PostForm, the URL's query string is parsed
\* into Form after the body's values, and the first error of the media
\* type's parameters, the read, the body's pairs and the URL's pairs is
\* returned.  PostForm is never nil.
ParseForm(r) ==
    FormOf(ReadAll(r.Body), ParseQuery(ReadAll(r.Body).data),
           ParseQuery(r.RawQuery), MediaParamsValid(After(r.ContentType, ";")))

(***************************************************************************)
(* package handler.                                                        *)
(***************************************************************************)
\* application/json
ContentTypeJSON ==
    <<"a", "p", "p", "l", "i", "c", "a", "t", "i", "o", "n", "/", "j",
    "s", "o", "n">>

\* application/graphql
ContentTypeGraphQL ==
    <<"a", "p", "p", "l", "i", "c", "a", "t", "i", "o", "n", "/", "g",
    "r", "a", "p", "h", "q", "l">>

\* application/x-www-form-urlencoded
ContentTypeFormURLEncoded ==
    <<"a", "p", "p", "l", "i", "c", "a", "t", "i", "o", "n", "/", "x",
    "-", "w", "w", "w", "-", "f", "o", "r", "m", "-", "u", "r", "l", "e",
    "n", "c", "o", "d", "e", "d">>

\* getFromForm with the operation name left out
getFromFormNoOperation(values) ==
    IF Get(values, QueryTag) # <<>>
    THEN <<RequestOptions(Get(values, QueryTag), NilMap, <<>>)>>
    ELSE <<>>

\* getFromForm: nil unless the values hold a non-empty query; the variables
\* map is declared nil and handed to json.Unmarshal by value
getFromForm(values) ==
    IF Get(values, QueryTag) # <<>>
    THEN <<RequestOptions(Get(values, QueryTag),
                          UnmarshalMapByValue(Get(values, VariablesTag), NilMap).m,
                          Get(values, OperationNameTag))>>
    ELSE <<>>

\* what NewRequestOptions hands back: the *RequestOptions and, for the
\* record, how many times it read r.Body
Returned(opts, reads) == [opts |-> opts, reads |-> reads]

\* reqOpt when it is not nil, else &RequestOptions{}
OrZero(reqOpt) == IF reqOpt # <<>> THEN reqOpt ELSE <<ZeroOptions>>

\* the body read as a document
documentRead(read) ==
    IF read.err THEN Returned(<<ZeroOptions>>, 1)
    ELSE Returned(<<RequestOptions(read.data, NilMap, <<>>)>>, 1)

\* case ContentTypeGraphQL
decodeGraphQL(r) == documentRead(ReadAll(r.Body))

\* the form parsed: all-empty on an error, else getFromForm(r.PostForm),
\* else all-empty
formParsed(form) ==
    IF form.err THEN Returned(<<ZeroOptions>>, 1)
    ELSE Returned(OrZero(getFromForm(form.PostForm)), 1)

\* the form parsed, with the result of getFromForm returned as it is, nil
\* included
decodeFormUnchecked(r) ==
    LET form == ParseForm(r)
    IN  IF form.err THEN Returned(<<ZeroOptions>>, 1)
        ELSE Returned(getFromForm(form.PostForm), 1)

\* the form parsed, read from r.Form, the body's values merged with the
\* URL's, in place of r.PostForm
decodeFormMerged(r) ==
    LET form == ParseForm(r)
    IN  IF form.err THEN Returned(<<ZeroOptions>>, 1)
        ELSE Returned(OrZero(getFromForm(form.Form)), 1)

\* case ContentTypeFormURLEncoded
decodeForm(r) == formParsed(ParseForm(r))

\* if err != nil: the body is parsed again into a
\* requestOptionsCompatibility and the text of its Variables is parsed into
\* opts.Variables, every error ignored
secondParse(first, body) ==
    IF ~first.err THEN <<first.o>>
    ELSE <<[first.o EXCEPT !.Variables =
               UnmarshalMap(UnmarshalCompatibility(body, ZeroCompatibility).o.Variables,
                            first.o.Variables).m]>>

\* the body read: on an error the zero opts, else the body parsed into opts
bodyRead(read) ==
    IF read.err THEN Returned(<<ZeroOptions>>, 1)
    ELSE Returned(secondParse(UnmarshalOptions(read.data, ZeroOptions), read.data), 1)

\* the second parse stored over a fresh RequestOptions, losing what the
\* first parse had stored
decodeJSONFresh(r) ==
    LET read  == ReadAll(r.Body)
        first == UnmarshalOptions(read.data, ZeroOptions)
        text  == UnmarshalCompatibility(read.data, ZeroCompatibility).o.Variables
    IN  IF read.err THEN Returned(<<ZeroOptions>>, 1)
        ELSE IF ~first.err THEN Returned(<<first.o>>, 1)
        ELSE Returned(<<[ZeroOptions EXCEPT
                            !.Variables = UnmarshalMap(text, NilMap).m]>>, 1)

\* case ContentTypeJSON and default
decodeJSON(r) == bodyRead(ReadAll(r.Body))

\* strings.Split(contentTypeStr, ";")[0]
contentType(r) == Before(r.ContentType, ";")

\* the dispatch on a content type
dispatch(r, token) ==
    CASE token = ContentTypeGraphQL        -> decodeGraphQL(r)
      [] token = ContentTypeFormURLEncoded -> decodeForm(r)
      [] OTHER                             -> decodeJSON(r)

\* the switch on the content type with the whole header compared
decodeBodyWholeHeader(r) == dispatch(r, r.ContentType)

\* the switch on the content type with a default that decodes nothing
decodeBodyStrict(r) ==
    IF contentType(r) \in {ContentTypeGraphQL, ContentTypeFormURLEncoded,
                           ContentTypeJSON}
    THEN dispatch(r, contentType(r))
    ELSE Returned(<<ZeroOptions>>, 0)

\* switch contentType
decodeBody(r) == dispatch(r, contentType(r))

\* reqOpt from the URL's query string when it is not nil, then the method
\* gate, the body gate and the switch on the content type
gates(r, reqOpt) ==
    IF reqOpt # <<>> THEN Returned(reqOpt, 0)
    ELSE IF r.Method # "POST" THEN Returned(<<ZeroOptions>>, 0)
    ELSE IF r.Body = <<>> THEN Returned(<<ZeroOptions>>, 0)
    ELSE decodeBody(r)

\* NewRequestOptions without the method gate
NewRequestOptionsAnyMethod(r) ==
    LET reqOpt == getFromForm(URLQuery(r.RawQuery))
    IN  IF reqOpt # <<>> THEN Returned(reqOpt, 0)
        ELSE IF r.Body = <<>> THEN Returned(<<ZeroOptions>>, 0)
        ELSE decodeBody(r)

\* NewRequestOptions
NewRequestOptions(r) == gates(r, getFromForm(URLQuery(r.RawQuery)))

\* type Handler, type Config
Handler(schema, pretty, logSlowResponses, showFullStackTrace) ==
    [Schema |-> schema, Pretty |-> pretty,
     LogSlowResponses |-> logSlowResponses,
     ShowFullStackTrace |-> showFullStackTrace]

Config(schema, pretty, logSlowResponses, showFullStackTrace) ==
    [Schema |-> schema, Pretty |-> pretty,
     LogSlowResponses |-> logSlowResponses,
     ShowFullStackTrace |-> showFullStackTrace]

NewConfig == Config(<<>>, TRUE, FALSE, FALSE)

PanicMessage == "undefined GraphQL schema"

\* what a call of New ends in: the *Handler returned, or the panic raised
Outcome(h, panic) == [h |-> h, panic |-> panic]

\* New with every field of the Config copied
NewCopyAll(p) ==
    LET c == IF p = <<>> THEN NewConfig ELSE p[1]
    IN  IF c.Schema = <<>> THEN Outcome(<<>>, PanicMessage)
        ELSE Outcome(<<Handler(c.Schema, c.Pretty, c.LogSlowResponses,
                               c.ShowFullStackTrace)>>, "")

\* New without the check of the schema
NewUnchecked(p) ==
    LET c == IF p = <<>> THEN NewConfig ELSE p[1]
    IN  Outcome(<<Handler(c.Schema, c.Pretty, c.LogSlowResponses, FALSE)>>, "")

\* New: a nil Config is replaced by NewConfig(), a nil Schema panics, and
\* the Handler is built from Schema, Pretty and LogSlowResponses alone
New(p) ==
    LET c == IF p = <<>> THEN NewConfig ELSE p[1]
    IN  IF c.Schema = <<>> THEN Outcome(<<>>, PanicMessage)
        ELSE Outcome(<<Handler(c.Schema, c.Pretty, c.LogSlowResponses, FALSE)>>, "")

(***************************************************************************)
(* The requests the model draws from.                                      *)
(***************************************************************************)
Methods == {"GET", "POST", "PUT"}

\* (empty)
QNone ==
    <<>>

\* query=foo&operationName=bar
QFooBar ==
    <<"q", "u", "e", "r", "y", "=", "f", "o", "o", "&", "o", "p", "e",
    "r", "a", "t", "i", "o", "n", "N", "a", "m", "e", "=", "b", "a", "r">>

\* query=%7Bf%7D&variables=%7B%22a%22%3A1%7D
QVariables ==
    <<"q", "u", "e", "r", "y", "=", "%", "7", "B", "f", "%", "7", "D",
    "&", "v", "a", "r", "i", "a", "b", "l", "e", "s", "=", "%", "7", "B",
    "%", "2", "2", "a", "%", "2", "2", "%", "3", "A", "1", "%", "7", "D">>

\* operationName=bar
QOperationOnly ==
    <<"o", "p", "e", "r", "a", "t", "i", "o", "n", "N", "a", "m", "e",
    "=", "b", "a", "r">>

\* query=&operationName=bar
QEmptyQuery ==
    <<"q", "u", "e", "r", "y", "=", "&", "o", "p", "e", "r", "a", "t",
    "i", "o", "n", "N", "a", "m", "e", "=", "b", "a", "r">>

\* x=%zz
QBadPair ==
    <<"x", "=", "%", "z", "z">>

\* query=a+b&query=c
QTwice ==
    <<"q", "u", "e", "r", "y", "=", "a", "+", "b", "&", "q", "u", "e",
    "r", "y", "=", "c">>

RawQueries ==
    {QNone, QFooBar, QVariables, QOperationOnly, QEmptyQuery, QBadPair, QTwice}

\* (empty)
CTNone ==
    <<>>

\* application/json; charset=utf-8
CTJSONCharset ==
    <<"a", "p", "p", "l", "i", "c", "a", "t", "i", "o", "n", "/", "j",
    "s", "o", "n", ";", " ", "c", "h", "a", "r", "s", "e", "t", "=", "u",
    "t", "f", "-", "8">>

\* application/graphql; charset=utf-8
CTGraphQLCharset ==
    <<"a", "p", "p", "l", "i", "c", "a", "t", "i", "o", "n", "/", "g",
    "r", "a", "p", "h", "q", "l", ";", " ", "c", "h", "a", "r", "s", "e",
    "t", "=", "u", "t", "f", "-", "8">>

\* application/x-www-form-urlencoded; charset=utf-8
CTFormCharset ==
    <<"a", "p", "p", "l", "i", "c", "a", "t", "i", "o", "n", "/", "x",
    "-", "w", "w", "w", "-", "f", "o", "r", "m", "-", "u", "r", "l", "e",
    "n", "c", "o", "d", "e", "d", ";", " ", "c", "h", "a", "r", "s", "e",
    "t", "=", "u", "t", "f", "-", "8">>

\* application/x-www-form-urlencoded; foo
CTFormBadParam ==
    <<"a", "p", "p", "l", "i", "c", "a", "t", "i", "o", "n", "/", "x",
    "-", "w", "w", "w", "-", "f", "o", "r", "m", "-", "u", "r", "l", "e",
    "n", "c", "o", "d", "e", "d", ";", " ", "f", "o", "o">>

\* text/plain
CTText ==
    <<"t", "e", "x", "t", "/", "p", "l", "a", "i", "n">>

ContentTypes ==
    {ContentTypeJSON, ContentTypeGraphQL, ContentTypeFormURLEncoded,
     CTNone, CTJSONCharset, CTGraphQLCharset, CTFormCharset, CTFormBadParam, CTText}

\* {"query":"q","variables":{"a":1},"operationName":"O"}
BWell ==
    <<"{", "\"", "q", "u", "e", "r", "y", "\"", ":", "\"", "q", "\"", ",",
    "\"", "v", "a", "r", "i", "a", "b", "l", "e", "s", "\"", ":", "{",
    "\"", "a", "\"", ":", "1", "}", ",", "\"", "o", "p", "e", "r", "a",
    "t", "i", "o", "n", "N", "a", "m", "e", "\"", ":", "\"", "O", "\"",
    "}">>

\* {"operationName":"O","variables":{"a":{"b":"c"},"d":[1,true]},"query":"q"}
BNested ==
    <<"{", "\"", "o", "p", "e", "r", "a", "t", "i", "o", "n", "N", "a",
    "m", "e", "\"", ":", "\"", "O", "\"", ",", "\"", "v", "a", "r", "i",
    "a", "b", "l", "e", "s", "\"", ":", "{", "\"", "a", "\"", ":", "{",
    "\"", "b", "\"", ":", "\"", "c", "\"", "}", ",", "\"", "d", "\"", ":",
    "[", "1", ",", "t", "r", "u", "e", "]", "}", ",", "\"", "q", "u", "e",
    "r", "y", "\"", ":", "\"", "q", "\"", "}">>

\* {"query":"q","variables":"{\"a\":1}","operationName":"O"}
BDouble ==
    <<"{", "\"", "q", "u", "e", "r", "y", "\"", ":", "\"", "q", "\"", ",",
    "\"", "v", "a", "r", "i", "a", "b", "l", "e", "s", "\"", ":", "\"",
    "{", "\\", "\"", "a", "\\", "\"", ":", "1", "}", "\"", ",", "\"", "o",
    "p", "e", "r", "a", "t", "i", "o", "n", "N", "a", "m", "e", "\"", ":",
    "\"", "O", "\"", "}">>

\* {"variables":"{\"a\":1}","operationName":"O","query":"q"}
BDoubleFirst ==
    <<"{", "\"", "v", "a", "r", "i", "a", "b", "l", "e", "s", "\"", ":",
    "\"", "{", "\\", "\"", "a", "\\", "\"", ":", "1", "}", "\"", ",",
    "\"", "o", "p", "e", "r", "a", "t", "i", "o", "n", "N", "a", "m", "e",
    "\"", ":", "\"", "O", "\"", ",", "\"", "q", "u", "e", "r", "y", "\"",
    ":", "\"", "q", "\"", "}">>

\* {"query":"q","variables":"{x","operationName":"O"}
BBadVariables ==
    <<"{", "\"", "q", "u", "e", "r", "y", "\"", ":", "\"", "q", "\"", ",",
    "\"", "v", "a", "r", "i", "a", "b", "l", "e", "s", "\"", ":", "\"",
    "{", "x", "\"", ",", "\"", "o", "p", "e", "r", "a", "t", "i", "o",
    "n", "N", "a", "m", "e", "\"", ":", "\"", "O", "\"", "}">>

\* {"query":5,"variables":{"a":1},"operationName":"O"}
BQueryNumber ==
    <<"{", "\"", "q", "u", "e", "r", "y", "\"", ":", "5", ",", "\"", "v",
    "a", "r", "i", "a", "b", "l", "e", "s", "\"", ":", "{", "\"", "a",
    "\"", ":", "1", "}", ",", "\"", "o", "p", "e", "r", "a", "t", "i",
    "o", "n", "N", "a", "m", "e", "\"", ":", "\"", "O", "\"", "}">>

\* {"query":"q"
BTruncated ==
    <<"{", "\"", "q", "u", "e", "r", "y", "\"", ":", "\"", "q", "\"">>

\* [1]
BArray ==
    <<"[", "1", "]">>

\* query { f }
BDocument ==
    <<"q", "u", "e", "r", "y", " ", "{", " ", "f", " ", "}">>

\* query=%7Bf%7D&operationName=Op
BForm ==
    <<"q", "u", "e", "r", "y", "=", "%", "7", "B", "f", "%", "7", "D",
    "&", "o", "p", "e", "r", "a", "t", "i", "o", "n", "N", "a", "m", "e",
    "=", "O", "p">>

\* query=q&variables=%7B%22a%22%3A1%7D
BFormVariables ==
    <<"q", "u", "e", "r", "y", "=", "q", "&", "v", "a", "r", "i", "a",
    "b", "l", "e", "s", "=", "%", "7", "B", "%", "2", "2", "a", "%", "2",
    "2", "%", "3", "A", "1", "%", "7", "D">>

\* operationName=Op
BFormNoQuery ==
    <<"o", "p", "e", "r", "a", "t", "i", "o", "n", "N", "a", "m", "e",
    "=", "O", "p">>

\* query=q&b=%zz
BFormBadPair ==
    <<"q", "u", "e", "r", "y", "=", "q", "&", "b", "=", "%", "z", "z">>

\* (empty)
BEmpty ==
    <<>>

BodyTexts ==
    {BWell, BNested, BDouble, BDoubleFirst, BBadVariables,
     BQueryNumber, BTruncated, BArray, BDocument, BForm,
     BFormVariables, BFormNoQuery, BFormBadPair, BEmpty}

\* a nil Body, a reader of each text, and readers that fail part way
Bodies ==
    {<<>>}
    \cup {<<[data |-> d, fails |-> FALSE]>> : d \in BodyTexts}
    \cup {<<[data |-> d, fails |-> TRUE]>> : d \in {BWell, BDocument, BForm}}

Requests ==
    {Request(m, q, c, b) : m \in Methods, q \in RawQueries,
                           c \in ContentTypes, b \in Bodies}

\* the requests the handler is made to serve: every method, a URL with and
\* without a query, the three content types the handler names, and a nil, a
\* JSON, a raw document and a form body
ServedRequests ==
    {Request(m, q, c, b) :
        m \in Methods, q \in {QNone, QFooBar},
        c \in {ContentTypeJSON, ContentTypeGraphQL, ContentTypeFormURLEncoded},
        b \in {<<>>} \cup {<<[data |-> d, fails |-> FALSE]>> :
                              d \in {BWell, BDocument, BForm}}}

Schemas == {<<>>, <<"schema">>}

\* a nil *Config and the Configs a caller may build
Configs ==
    {<<>>}
    \cup {<<Config(s, p, ~p, p)>> : s \in Schemas, p \in BOOLEAN}

(***************************************************************************)
(* The program: a process that builds one Handler with New and then serves *)
(* requests with it, one call at a time (Spec), and the decoder on its own *)
(* applied to every request (DecoderSpec).                                 *)
(***************************************************************************)
VARIABLES
    phase,      \* "init" before New is called, then "running" or "panicked"
    config,     \* the *Config New was called with
    h,          \* the *Handler New returned
    panic,      \* the value New panicked with, "" when it did not
    traceSet,   \* whether the caller assigned h.ShowFullStackTrace after New
    r,          \* the *http.Request of the call in progress, nil when none
    opts,       \* the *RequestOptions NewRequestOptions returned for r
    reads,      \* how many times r.Body was read
    logged,     \* how the call logged an execution error: none, full, boxed
    slowLogged, \* whether the call logged a slow response
    written     \* the response written: status code and JSON layout

vars == <<phase, config, h, panic, traceSet, r, opts, reads, logged,
          slowLogged, written>>

NoResponse == [status |-> 0, layout |-> "none"]

call == <<r, opts, reads, logged, slowLogged, written>>

made == <<phase, config, h, panic, traceSet>>

Init ==
    /\ phase = "init"
    /\ config = <<>>
    /\ h = <<>>
    /\ panic = ""
    /\ traceSet = FALSE
    /\ r = <<>>
    /\ opts = <<>>
    /\ reads = 0
    /\ logged = "none"
    /\ slowLogged = FALSE
    /\ written = NoResponse

\* the program calls New(p)
CallNew ==
    /\ phase = "init"
    /\ r = <<>>
    /\ \E p \in Configs :
          /\ config' = p
          /\ h' = New(p).h
          /\ panic' = New(p).panic
          /\ phase' = IF New(p).panic = "" THEN "running" ELSE "panicked"
    /\ UNCHANGED <<traceSet, call>>

\* the caller assigns the exported field h.ShowFullStackTrace
SetShowFullStackTrace ==
    /\ phase = "running"
    /\ r = <<>>
    /\ \E b \in BOOLEAN : h' = <<[h[1] EXCEPT !.ShowFullStackTrace = b]>>
    /\ traceSet' = TRUE
    /\ UNCHANGED <<phase, config, panic, call>>

\* the call in progress took req and decoded it to ret
decoded(req, ret) == r' = <<req>> /\ opts' = ret.opts /\ reads' = ret.reads

\* the program calls NewRequestOptions(req) on its own
CallNewRequestOptions ==
    /\ r = <<>>
    /\ \E req \in Requests : decoded(req, NewRequestOptions(req))
    /\ UNCHANGED <<made, logged, slowLogged, written>>

\* h.ContextHandler(ctx, w, req): the options are decoded, graphql.Do runs
\* (hasErrors: whether its result carries errors), each error is logged in
\* full or boxed, the result is written with status 200, indented when
\* h.Pretty, and a response slower than 200ms (slow) is logged when
\* h.LogSlowResponses
ContextHandler ==
    /\ phase = "running"
    /\ r = <<>>
    /\ \E req \in ServedRequests : decoded(req, NewRequestOptions(req))
    /\ \E hasErrors \in BOOLEAN :
          logged' = IF ~hasErrors THEN "none"
                    ELSE IF h[1].ShowFullStackTrace THEN "full" ELSE "boxed"
    /\ written' = [status |-> 200,
                   layout |-> IF h[1].Pretty THEN "indent" ELSE "compact"]
    /\ \E slow \in BOOLEAN : slowLogged' = (h[1].LogSlowResponses /\ slow)
    /\ UNCHANGED made

\* the call returns and its request and options are dropped
Return ==
    /\ r # <<>>
    /\ r' = <<>>
    /\ opts' = <<>>
    /\ reads' = 0
    /\ logged' = "none"
    /\ slowLogged' = FALSE
    /\ written' = NoResponse
    /\ UNCHANGED made

Next ==
    \/ CallNew
    \/ SetShowFullStackTrace
    \/ ContextHandler
    \/ Return

Spec == Init /\ [][Next]_vars

NextDecoder ==
    \/ CallNewRequestOptions
    \/ Return

DecoderSpec == Init /\ [][NextDecoder]_vars

(***************************************************************************)
(* Properties.  They speak of the call in progress: its request r[1], the  *)
(* options opts[1] decoded for it and the reads of its body.               *)
(***************************************************************************)
\* the values of the URL's query string, as the library parses them
urlValues == URLQuery(r[1].RawQuery)

\* the URL's query string holds a non-empty query parameter
HasURLQuery == Get(urlValues, QueryTag) # <<>>

\* the call went past the query string, the method gate and the body gate
ReachesBody == r # <<>> /\ ~HasURLQuery /\ r[1].Method = "POST" /\ r[1].Body # <<>>

\* query == "", variables empty (nil or without entries), operationName == ""
AllEmpty(o) == o.Query = <<>> /\ o.Variables.m = {} /\ o.OperationName = <<>>

\* map[string]interface{}{"a": float64(1)}
VariablesA1 ==
    GoVal("map", <<>>, {<< <<"a">>, GoVal("float64", <<"1">>, {}, <<>>) >>}, <<>>)

\* map[string]interface{}{"a": map[string]interface{}{"b": "c"},
\*                        "d": []interface{}{float64(1), true}}
VariablesNested ==
    GoVal("map", <<>>,
          {<< <<"a">>,
              GoVal("map", <<>>, {<< <<"b">>, GoVal("string", <<"c">>, {}, <<>>) >>},
                    <<>>) >>,
           << <<"d">>,
              GoVal("slice", <<>>, {},
                    << GoVal("float64", <<"1">>, {}, <<>>),
                       GoVal("bool", <<"t", "r", "u", "e">>, {}, <<>>) >>) >>},
          <<>>)

\* the content types whose text before the first ; is application/json,
\* absent, or neither application/graphql nor the form type
JSONContentTypes == {ContentTypeJSON, CTJSONCharset, CTNone, CTText}

GraphQLContentTypes == {ContentTypeGraphQL, CTGraphQLCharset}

FormContentTypes == {ContentTypeFormURLEncoded, CTFormCharset, CTFormBadParam}

\* C1: whenever the URL's query string has a non-empty query parameter, the
\* options returned hold exactly the URL's query and operationName
\* parameters, whatever the method, the Content-Type and the body are, and
\* the body is not read; ?query=foo&operationName=bar gives foo and bar.
C1_QueryStringWins ==
    (r # <<>> /\ HasURLQuery) =>
        /\ Len(opts) = 1
        /\ opts[1].Query = Get(urlValues, QueryTag)
        /\ opts[1].OperationName = Get(urlValues, OperationNameTag)
        /\ reads = 0
        /\ r[1].RawQuery = QFooBar =>
              /\ opts[1].Query = <<"f", "o", "o">>
              /\ opts[1].OperationName = <<"b", "a", "r">>

\* C1 witness: a POST with a JSON body of its own and ?query=foo in the URL
\* was decoded to the URL's query
C1_Witness ==
    /\ r # <<>>
    /\ r[1].RawQuery = QFooBar
    /\ r[1].Method = "POST"
    /\ r[1].ContentType = ContentTypeJSON
    /\ r[1].Body = <<[data |-> BWell, fails |-> FALSE]>>
    /\ opts[1].Query = <<"f", "o", "o">>
    /\ opts[1].OperationName = <<"b", "a", "r">>
    /\ reads = 0

\* C2: NewRequestOptions returns a non-nil RequestOptions for every request
\* (any method, any or no Content-Type, nil body, failing read, form that
\* does not parse, body that is not JSON, variables that are not JSON); the
\* Variables are nil or a map; and what could not be recovered is zero: a
\* failed read or a body that is no JSON text leaves every field zero, and
\* variables that are no JSON text leave Variables nil beside the query and
\* the operation name recovered.
C2_Total ==
    r # <<>> =>
        /\ Len(opts) = 1
        /\ opts[1].Variables.t \in {"nil", "map"}
        /\ (ReachesBody /\ r[1].Body[1].fails) => opts[1] = ZeroOptions
        /\ (ReachesBody /\ r[1].ContentType \in JSONContentTypes
              /\ ~ParseJSON(r[1].Body[1].data).ok) => opts[1] = ZeroOptions
        /\ (ReachesBody /\ r[1].ContentType \in JSONContentTypes
              /\ r[1].Body = <<[data |-> BBadVariables, fails |-> FALSE]>>) =>
                 opts[1] = RequestOptions(<<"q">>, NilMap, <<"O">>)
        /\ r[1].Body = <<>> => (HasURLQuery \/ opts[1] = ZeroOptions)

\* C2 witness: a JSON body whose variables are a string that is no JSON text
\* was decoded to the query and the operation name, with nil Variables
C2_Witness ==
    /\ ReachesBody
    /\ r[1].ContentType = ContentTypeJSON
    /\ r[1].Body = <<[data |-> BBadVariables, fails |-> FALSE]>>
    /\ opts = <<RequestOptions(<<"q">>, NilMap, <<"O">>)>>

\* C3: a POST without a query-string query, with a body that is a
\* well-formed JSON object {"query": Q, "variables": V, "operationName": O}
\* and a Content-Type that is application/json (with or without
\* parameters), absent, or any type other than application/graphql and the
\* form type, is decoded to exactly Query = Q, Variables = V,
\* OperationName = O.
C3_JSONBody ==
    (ReachesBody /\ r[1].ContentType \in JSONContentTypes /\ ~r[1].Body[1].fails) =>
        /\ r[1].Body[1].data = BWell =>
              opts = <<RequestOptions(<<"q">>, VariablesA1, <<"O">>)>>
        /\ r[1].Body[1].data = BNested =>
              opts = <<RequestOptions(<<"q">>, VariablesNested, <<"O">>)>>

\* C3 witness: the nested body sent as application/json; charset=utf-8 was
\* decoded to its three fields
C3_Witness ==
    /\ ReachesBody
    /\ r[1].ContentType = CTJSONCharset
    /\ r[1].Body = <<[data |-> BNested, fails |-> FALSE]>>
    /\ opts = <<RequestOptions(<<"q">>, VariablesNested, <<"O">>)>>

\* C4: a POST that reaches the JSON branch with a body whose variables field
\* is a JSON string holding the text of a JSON object W is decoded to
\* Variables = W, with Query and OperationName still the body's, wherever
\* the variables field stands among the members.
C4_DoubleEncoded ==
    (ReachesBody /\ r[1].ContentType \in JSONContentTypes /\ ~r[1].Body[1].fails
       /\ r[1].Body[1].data \in {BDouble, BDoubleFirst}) =>
        opts = <<RequestOptions(<<"q">>, VariablesA1, <<"O">>)>>

\* C4 witness: the body with variables as a string was decoded
C4_Witness ==
    /\ ReachesBody
    /\ r[1].ContentType = ContentTypeJSON
    /\ r[1].Body = <<[data |-> BDouble, fails |-> FALSE]>>
    /\ opts = <<RequestOptions(<<"q">>, VariablesA1, <<"O">>)>>

\* C5: a request without a non-empty query-string query whose method is not
\* POST is decoded to all-empty options, whatever its Content-Type and body
\* are, and its body is not read.
C5_MethodGate ==
    (r # <<>> /\ ~HasURLQuery /\ r[1].Method # "POST") =>
        /\ opts = <<ZeroOptions>>
        /\ AllEmpty(opts[1])
        /\ reads = 0

\* C5 witness: a PUT with a well-formed JSON body was decoded to all-empty
\* options
C5_Witness ==
    /\ r # <<>>
    /\ r[1].Method = "PUT"
    /\ r[1].RawQuery = QOperationOnly
    /\ r[1].ContentType = ContentTypeJSON
    /\ r[1].Body = <<[data |-> BWell, fails |-> FALSE]>>
    /\ opts = <<ZeroOptions>>
    /\ reads = 0

\* C6: a POST without a query-string query, with a body and a Content-Type
\* whose text before the first ; is application/graphql, is decoded to
\* Query = the whole body, Variables empty, OperationName ""; when the read
\* of the body fails the options are all-empty.
C6_RawDocument ==
    (ReachesBody /\ r[1].ContentType \in GraphQLContentTypes) =>
        /\ ~r[1].Body[1].fails =>
              opts = <<RequestOptions(r[1].Body[1].data, NilMap, <<>>)>>
        /\ r[1].Body[1].fails => opts = <<ZeroOptions>>

\* C6 witness: the document sent as application/graphql; charset=utf-8 became
\* the query
C6_Witness ==
    /\ ReachesBody
    /\ r[1].ContentType = CTGraphQLCharset
    /\ r[1].Body = <<[data |-> BDocument, fails |-> FALSE]>>
    /\ opts[1].Query = BDocument
    /\ opts[1].Variables = NilMap

\* the form of the call in progress, as the library parses it
postForm == ParseQuery(r[1].Body[1].data).v

\* r.ParseForm() returns an error: the read fails, a pair of the body or of
\* the URL's query string does not unescape, or the media type's parameters
\* are malformed
FormFails ==
    \/ r[1].Body[1].fails
    \/ ParseQuery(r[1].Body[1].data).err
    \/ ParseQuery(r[1].RawQuery).err
    \/ r[1].ContentType = CTFormBadParam

VariablesOf(text) ==
    IF ParseJSON(text).ok /\ ParseJSON(text).v.t = "obj"
    THEN ToInterface(ParseJSON(text).v)
    ELSE NilMap

\* C8: when the query field of the URL's query string, or of a form body, is
\* non-empty, the Variables returned are the JSON object decoded from the
\* variables field when it holds the text of one, and are empty otherwise.
C8_FormVariables ==
    /\ (r # <<>> /\ HasURLQuery) =>
          opts[1].Variables.m = VariablesOf(Get(urlValues, VariablesTag)).m
    /\ (ReachesBody /\ r[1].ContentType \in FormContentTypes /\ ~FormFails
          /\ Get(postForm, QueryTag) # <<>>) =>
          opts[1].Variables.m = VariablesOf(Get(postForm, VariablesTag)).m

\* C9: New panics with "undefined GraphQL schema", and returns no Handler,
\* exactly when the Config is nil or its Schema is nil (so New(nil) always
\* panics); otherwise it returns a Handler with the Config's Schema.  No
\* Handler is ever without a schema.
C9_NewNeedsSchema ==
    /\ phase # "init" =>
          /\ (config = <<>> \/ config[1].Schema = <<>>) <=> phase = "panicked"
          /\ phase = "panicked" <=> (panic = PanicMessage /\ h = <<>>)
          /\ phase = "running" =>
                (panic = "" /\ h # <<>> /\ h[1].Schema = config[1].Schema)
    /\ h # <<>> => h[1].Schema # <<>>

\* C9 witness: New was called with a Config whose Schema is nil and panicked
C9_Witness ==
    /\ phase = "panicked"
    /\ config # <<>>
    /\ config[1].Schema = <<>>
    /\ panic = PanicMessage
    /\ h = <<>>

\* C10: whatever Config.ShowFullStackTrace was, the Handler New returned has
\* ShowFullStackTrace false until the caller assigns the field, and until
\* then ContextHandler never logs an execution error in full.
C10_TraceNotCopied ==
    /\ (h # <<>> /\ ~traceSet) => ~h[1].ShowFullStackTrace
    /\ logged = "full" => traceSet

\* C10 witness: a Handler built from a Config with ShowFullStackTrace set
\* logged an execution error boxed
C10_Witness ==
    /\ h # <<>>
    /\ config[1].ShowFullStackTrace
    /\ ~traceSet
    /\ logged = "boxed"

====
